---- MODULE Spec2Model ----
(***************************************************************************)
(* Model of hypr-exiled's X11 window-manager backend (package wm) and of   *)
(* the application lifecycle (package app).                                *)
(*                                                                         *)
(* SpecWM  : NewX11, FindWindow and FocusWindow, driven by one caller,     *)
(*           with the X server's windows closing concurrently.             *)
(* SpecApp : NewPOEHelper, Run, Stop, waitForShutdown, the watcher         *)
(*           goroutine started by Run and the handleTradeEntry callback.   *)
(***************************************************************************)
EXTENDS Integers, Sequences, FiniteSets, TLC

(* ------------------------------ bounds --------------------------------- *)

\* Number of X11 windows that may exist.
MaxWindows == 3
\* Longest list of candidate class names handed to FindWindow.
MaxClassNames == 2
\* Termination signals the environment sends.
MaxSignals == 2
\* Trade entries the log watcher hands to the callback.
MaxEntries == 2

(* ------------------------- program constants --------------------------- *)

\* time.Sleep(100 * time.Millisecond)
SettleDelayMs == 100
\* make(chan os.Signal, 1)
SigChanCap == 1

(* --------------------------- value domains ----------------------------- *)

Classes == {"GameWindowV2", "GameWindow"}

\* xdotool prints window ids as decimal numbers, one per line.
WindowIDs == {ToString(n) : n \in 1..MaxWindows}

ClassLists == UNION {[1..n -> Classes] : n \in 0..MaxClassNames}

\* Window{} : the zero value, returned by FindWindow for "not found".
NoWindow == [ID |-> "", Class |-> ""]

VARIABLES
  \* ---- package wm ----
  xdotool,      \* exec.LookPath("xdotool") succeeds
  wm,           \* what NewX11 returned: [inst, err]
  classOf,      \* WM_CLASS of every window id
  present,      \* window ids currently mapped on the X server
  atCall,       \* the windows present when the running FindWindow was called
  wpc,          \* position of the caller of the backend
  lastOp,       \* the method that has just returned ("none" inside a call)
  classNames,   \* FindWindow's argument
  idx,          \* FindWindow's loop position (1-based)
  windowID,     \* FindWindow's local windowID
  findRes,      \* FindWindow's result: [win, err] (err "none": not called yet)
  focusArg,     \* FocusWindow's argument
  focusRes,     \* FocusWindow's result: "none" | "nil" | "err"
  focusLog      \* what the running/last FocusWindow did: xdotool runs and sleeps
  \* (the record of a finished call is cleared when the other method is called)

wmvars == <<xdotool, wm, classOf, present, atCall, wpc, lastOp, classNames,
            idx, windowID, findRes, focusArg, focusRes, focusLog>>

VARIABLES
  \* ---- package app ----
  rofi,          \* exec.LookPath("rofi") succeeds
  alive,         \* the process has not been terminated by a signal
  mpc,           \* position of the main task
  helper,        \* what NewPOEHelper returned: "none" | "nil" | "helper"
  ctorErr,       \* NewPOEHelper's error: "none" | "nil" | "dep" | "logwatcher"
  tradeManager,  \* trade_manager.NewTradeManager() has been called
  poeLogWatcher, \* poe_log.NewLogWatcher(...) has been called
  notes,         \* what the Notifier was asked to show, in order
  sigSent,       \* termination signals sent to the process so far
  sigRegistered, \* signal.Notify(sigChan, SIGINT, SIGTERM) has run
  sigChan,       \* signals buffered in sigChan (capacity 1)
  sigReceived,   \* waitForShutdown has taken a signal from sigChan
  gpc,           \* position of the goroutine Run starts
  watchFailed,   \* Watch has returned a non-nil error
  stopCalls,     \* calls of LogWatcher.Stop
  cbpc,          \* position of handleTradeEntry
  addTrade,      \* the running AddTrade: "idle" | "running" | "blocked"
  delivered      \* entries the watcher has handed to the callback

appvars == <<rofi, alive, mpc, helper, ctorErr, tradeManager, poeLogWatcher,
             notes, sigSent, sigRegistered, sigChan, sigReceived, gpc,
             watchFailed, stopCalls, cbpc, addTrade, delivered>>

vars == <<wmvars, appvars>>

(* =========================== package wm ================================ *)

HasWindow(ws, class) == \E w \in ws : classOf[w] = class

\* The windows `xdotool search --class class` lists.
Matching(class) == {w \in present : classOf[w] = class}

InitWM ==
  /\ xdotool \in BOOLEAN
  /\ wm = [inst |-> "unbuilt", err |-> "unbuilt"]
  /\ classOf \in [WindowIDs -> Classes]
  /\ present \in SUBSET WindowIDs
  /\ atCall = {}
  /\ wpc = "new"
  /\ lastOp = "none"
  /\ classNames = <<>>
  /\ idx = 1
  /\ windowID = ""
  /\ findRes = [win |-> NoWindow, err |-> "none"]
  /\ focusArg = NoWindow
  /\ focusRes = "none"
  /\ focusLog = <<>>

\* A window is closed by its owner at any time.
CloseWindow ==
  /\ \E w \in present : present' = present \ {w}
  /\ UNCHANGED <<xdotool, wm, classOf, atCall, wpc, lastOp, classNames, idx,
                 windowID, findRes, focusArg, focusRes, focusLog>>
  /\ UNCHANGED appvars

\* NewX11 without the LookPath check.
NewX11_NoLookPath ==
  /\ wpc = "new"
  /\ wm' = [inst |-> "X11", err |-> "nil"]
  /\ wpc' = "idle"
  /\ lastOp' = "NewX11"
  /\ UNCHANGED <<xdotool, classOf, present, atCall, classNames, idx, windowID,
                 findRes, focusArg, focusRes, focusLog>>
  /\ UNCHANGED appvars

NewX11 ==
  /\ wpc = "new"
  /\ IF ~xdotool
       THEN /\ wm' = [inst |-> "nil", err |-> "xdotool not found"]
            /\ wpc' = "failed"
       ELSE /\ wm' = [inst |-> "X11", err |-> "nil"]
            /\ wpc' = "idle"
  /\ lastOp' = "NewX11"
  /\ UNCHANGED <<xdotool, classOf, present, atCall, classNames, idx, windowID,
                 findRes, focusArg, focusRes, focusLog>>
  /\ UNCHANGED appvars

\* Entry of FindWindow(classNames).
FindWindowCall ==
  /\ wpc = "idle"
  /\ \E cn \in ClassLists : classNames' = cn
  /\ idx' = 1
  /\ windowID' = ""
  /\ atCall' = present
  /\ wpc' = "search"
  /\ focusArg' = NoWindow
  /\ focusRes' = "none"
  /\ focusLog' = <<>>
  /\ lastOp' = "none"
  /\ UNCHANGED <<xdotool, wm, classOf, present, findRes>>
  /\ UNCHANGED appvars

\* One iteration's `xdotool search --class class`: it exits non-zero with no
\* output when nothing matches; otherwise the first line names the window.
FindWindowSearch ==
  /\ wpc = "search"
  /\ idx <= Len(classNames)
  /\ IF Matching(classNames[idx]) # {}
       THEN /\ \E first \in Matching(classNames[idx]) : windowID' = first
            /\ wpc' = "getname"
            /\ idx' = idx
       ELSE /\ idx' = idx + 1
            /\ UNCHANGED <<windowID, wpc>>
  /\ UNCHANGED <<xdotool, wm, classOf, present, atCall, lastOp, classNames,
                 findRes, focusArg, focusRes, focusLog>>
  /\ UNCHANGED appvars

\* `xdotool getwindowname windowID`: fails when the window is gone.
FindWindowGetName ==
  /\ wpc = "getname"
  /\ IF windowID \in present
       THEN /\ findRes' = [win |-> [ID |-> windowID, Class |-> classNames[idx]],
                           err |-> "nil"]
            /\ wpc' = "idle"
            /\ lastOp' = "FindWindow"
            /\ idx' = idx
       ELSE /\ idx' = idx + 1
            /\ wpc' = "search"
            /\ UNCHANGED <<findRes, lastOp>>
  /\ UNCHANGED <<xdotool, wm, classOf, present, atCall, classNames, windowID,
                 focusArg, focusRes, focusLog>>
  /\ UNCHANGED appvars

\* FindWindow reporting "not found" as an error.
FindWindowNotFound_AsError ==
  /\ wpc = "search"
  /\ idx > Len(classNames)
  /\ findRes' = [win |-> NoWindow, err |-> "window not found"]
  /\ wpc' = "idle"
  /\ lastOp' = "FindWindow"
  /\ UNCHANGED <<xdotool, wm, classOf, present, atCall, classNames, idx,
                 windowID, focusArg, focusRes, focusLog>>
  /\ UNCHANGED appvars

\* The loop is exhausted: return Window{}, nil.
FindWindowNotFound ==
  /\ wpc = "search"
  /\ idx > Len(classNames)
  /\ findRes' = [win |-> NoWindow, err |-> "nil"]
  /\ wpc' = "idle"
  /\ lastOp' = "FindWindow"
  /\ UNCHANGED <<xdotool, wm, classOf, present, atCall, classNames, idx,
                 windowID, focusArg, focusRes, focusLog>>
  /\ UNCHANGED appvars

\* The windows a caller may hand to FocusWindow.
FocusArgs ==
  {findRes.win}
    \cup {[ID |-> w, Class |-> classOf[w]] : w \in WindowIDs}
    \cup {[ID |-> "", Class |-> c] : c \in Classes \cup {""}}

\* FocusWindow without the empty-ID check.
FocusWindowCall_NoIDCheck ==
  /\ wpc = "idle"
  /\ \E w \in FocusArgs : focusArg' = w
  /\ focusRes' = "none"
  /\ wpc' = "activate"
  /\ lastOp' = "none"
  /\ focusLog' = <<>>
  /\ classNames' = <<>>
  /\ idx' = 1
  /\ windowID' = ""
  /\ atCall' = {}
  /\ UNCHANGED <<xdotool, wm, classOf, present, findRes>>
  /\ UNCHANGED appvars

\* Entry of FocusWindow(w) with its argument check.
FocusWindowCall ==
  /\ wpc = "idle"
  /\ \E w \in FocusArgs :
       /\ focusArg' = w
       /\ IF w.ID = ""
            THEN /\ focusRes' = "err"
                 /\ wpc' = "idle"
                 /\ lastOp' = "FocusWindow"
            ELSE /\ focusRes' = "none"
                 /\ wpc' = "activate"
                 /\ lastOp' = "none"
  /\ focusLog' = <<>>
  /\ classNames' = <<>>
  /\ idx' = 1
  /\ windowID' = ""
  /\ atCall' = {}
  /\ UNCHANGED <<xdotool, wm, classOf, present, findRes>>
  /\ UNCHANGED appvars

\* FocusWindow dropping the error of `xdotool windowactivate`.
FocusWindowActivate_IgnoreErr ==
  /\ wpc = "activate"
  /\ focusLog' = Append(focusLog,
                   [cmd |-> "windowactivate", arg |-> focusArg.ID,
                    ok |-> focusArg.ID \in present])
  /\ wpc' = "sleep"
  /\ UNCHANGED <<focusRes, lastOp>>
  /\ UNCHANGED <<xdotool, wm, classOf, present, atCall, classNames, idx,
                 windowID, findRes, focusArg>>
  /\ UNCHANGED appvars

\* `xdotool windowactivate w.ID`: fails when the window is gone.
FocusWindowActivate ==
  /\ wpc = "activate"
  /\ LET ok == focusArg.ID \in present IN
       /\ focusLog' = Append(focusLog,
                        [cmd |-> "windowactivate", arg |-> focusArg.ID, ok |-> ok])
       /\ IF ok
            THEN /\ wpc' = "sleep"
                 /\ UNCHANGED <<focusRes, lastOp>>
            ELSE /\ focusRes' = "err"
                 /\ wpc' = "idle"
                 /\ lastOp' = "FocusWindow"
  /\ UNCHANGED <<xdotool, wm, classOf, present, atCall, classNames, idx,
                 windowID, findRes, focusArg>>
  /\ UNCHANGED appvars

\* The settle delay, then return nil.
FocusWindowSleep ==
  /\ wpc = "sleep"
  /\ focusLog' = Append(focusLog,
                   [cmd |-> "sleep", arg |-> ToString(SettleDelayMs), ok |-> TRUE])
  /\ focusRes' = "nil"
  /\ wpc' = "idle"
  /\ lastOp' = "FocusWindow"
  /\ UNCHANGED <<xdotool, wm, classOf, present, atCall, classNames, idx,
                 windowID, findRes, focusArg>>
  /\ UNCHANGED appvars

(* =========================== package app =============================== *)

InitApp ==
  /\ rofi \in BOOLEAN
  /\ alive = TRUE
  /\ mpc = "new"
  /\ helper = "none"
  /\ ctorErr = "none"
  /\ tradeManager = FALSE
  /\ poeLogWatcher = FALSE
  /\ notes = <<>>
  /\ sigSent = 0
  /\ sigRegistered = FALSE
  /\ sigChan = 0
  /\ sigReceived = FALSE
  /\ gpc = "none"
  /\ watchFailed = FALSE
  /\ stopCalls = 0
  /\ cbpc = "idle"
  /\ addTrade = "idle"
  /\ delivered = 0

\* deps := []string{"rofi"}: the error of the first dependency not on PATH.
checkDependencies ==
  IF rofi THEN "nil" ELSE "rofi is not installed"

\* NewPOEHelper reporting a missing dependency without returning.
NewPOEHelper_NoEarlyReturn ==
  /\ alive
  /\ mpc = "new"
  /\ notes' = IF checkDependencies # "nil"
                THEN Append(notes, [msg |-> checkDependencies, sev |-> "Error"])
                ELSE notes
  /\ tradeManager' = TRUE
  /\ \E lwErr \in BOOLEAN :
       IF lwErr
         THEN /\ helper' = "nil"
              /\ ctorErr' = "logwatcher"
              /\ mpc' = "failed"
              /\ UNCHANGED poeLogWatcher
         ELSE /\ helper' = "helper"
              /\ ctorErr' = "nil"
              /\ mpc' = "ready"
              /\ poeLogWatcher' = TRUE
  /\ UNCHANGED <<rofi, alive, sigSent, sigRegistered, sigChan, sigReceived, gpc,
                 watchFailed, stopCalls, cbpc, addTrade, delivered>>
  /\ UNCHANGED wmvars

\* NewLogWatcher succeeds or fails; NewTradeManager cannot fail.
NewPOEHelper ==
  /\ alive
  /\ mpc = "new"
  /\ IF checkDependencies # "nil"
       THEN /\ notes' = Append(notes, [msg |-> checkDependencies, sev |-> "Error"])
            /\ helper' = "nil"
            /\ ctorErr' = "dep"
            /\ mpc' = "failed"
            /\ UNCHANGED <<tradeManager, poeLogWatcher>>
       ELSE /\ tradeManager' = TRUE
            /\ \E lwErr \in BOOLEAN :
                 IF lwErr
                   THEN /\ helper' = "nil"
                        /\ ctorErr' = "logwatcher"
                        /\ mpc' = "failed"
                        /\ UNCHANGED poeLogWatcher
                   ELSE /\ helper' = "helper"
                        /\ ctorErr' = "nil"
                        /\ mpc' = "ready"
                        /\ poeLogWatcher' = TRUE
            /\ UNCHANGED notes
  /\ UNCHANGED <<rofi, alive, sigSent, sigRegistered, sigChan, sigReceived, gpc,
                 watchFailed, stopCalls, cbpc, addTrade, delivered>>
  /\ UNCHANGED wmvars

\* Run: notifier.Show("POE Helper started", notify.Info); its error is only logged.
RunNotifyStarted ==
  /\ alive
  /\ mpc = "ready"
  /\ helper = "helper"
  /\ notes' = Append(notes, [msg |-> "POE Helper started", sev |-> "Info"])
  /\ mpc' = "go"
  /\ UNCHANGED <<rofi, alive, helper, ctorErr, tradeManager, poeLogWatcher,
                 sigSent, sigRegistered, sigChan, sigReceived, gpc, watchFailed,
                 stopCalls, cbpc, addTrade, delivered>>
  /\ UNCHANGED wmvars

\* Run: go func() { ... }() -- the goroutine exists but has not run yet.
RunGo ==
  /\ alive
  /\ mpc = "go"
  /\ gpc' = "spawned"
  /\ mpc' = "sigsetup"
  /\ UNCHANGED <<rofi, alive, helper, ctorErr, tradeManager, poeLogWatcher,
                 notes, sigSent, sigRegistered, sigChan, sigReceived,
                 watchFailed, stopCalls, cbpc, addTrade, delivered>>
  /\ UNCHANGED wmvars

\* waitForShutdown: make(chan os.Signal, 1); signal.Notify(...).
waitForShutdownNotify ==
  /\ alive
  /\ mpc = "sigsetup"
  /\ sigRegistered' = TRUE
  /\ mpc' = "sigwait"
  /\ UNCHANGED <<rofi, alive, helper, ctorErr, tradeManager, poeLogWatcher,
                 notes, sigSent, sigChan, sigReceived, gpc, watchFailed,
                 stopCalls, cbpc, addTrade, delivered>>
  /\ UNCHANGED wmvars

\* waitForShutdown polling sigChan instead of blocking on it.
waitForShutdownRecv_NoBlock ==
  /\ alive
  /\ mpc = "sigwait"
  /\ sigChan' = IF sigChan > 0 THEN sigChan - 1 ELSE sigChan
  /\ sigReceived' = (sigReceived \/ sigChan > 0)
  /\ mpc' = "stop"
  /\ UNCHANGED <<rofi, alive, helper, ctorErr, tradeManager, poeLogWatcher,
                 notes, sigSent, sigRegistered, gpc, watchFailed, stopCalls,
                 cbpc, addTrade, delivered>>
  /\ UNCHANGED wmvars

\* waitForShutdown: sig := <-sigChan blocks until a signal is buffered.
waitForShutdownRecv ==
  /\ alive
  /\ mpc = "sigwait"
  /\ sigChan > 0
  /\ sigChan' = sigChan - 1
  /\ sigReceived' = TRUE
  /\ mpc' = "stop"
  /\ UNCHANGED <<rofi, alive, helper, ctorErr, tradeManager, poeLogWatcher,
                 notes, sigSent, sigRegistered, gpc, watchFailed, stopCalls,
                 cbpc, addTrade, delivered>>
  /\ UNCHANGED wmvars

\* POEHelper.Stop, called from Run's `return p.Stop()`.
Stop ==
  /\ alive
  /\ mpc = "stop"
  /\ stopCalls' = IF poeLogWatcher THEN stopCalls + 1 ELSE stopCalls
  /\ mpc' = "stopped"
  /\ UNCHANGED <<rofi, alive, helper, ctorErr, tradeManager, poeLogWatcher,
                 notes, sigSent, sigRegistered, sigChan, sigReceived, gpc,
                 watchFailed, cbpc, addTrade, delivered>>
  /\ UNCHANGED wmvars

\* Run returns Stop's nil.
RunReturn ==
  /\ alive
  /\ mpc = "stopped"
  /\ mpc' = "returned"
  /\ UNCHANGED <<rofi, alive, helper, ctorErr, tradeManager, poeLogWatcher,
                 notes, sigSent, sigRegistered, sigChan, sigReceived, gpc,
                 watchFailed, stopCalls, cbpc, addTrade, delivered>>
  /\ UNCHANGED wmvars

\* SIGINT or SIGTERM arrives. Once signal.Notify has run it is queued in
\* sigChan without blocking (dropped when the buffer is full); before that the
\* Go runtime's default disposition ends the process.
Signal ==
  /\ alive
  /\ sigSent < MaxSignals
  /\ sigSent' = sigSent + 1
  /\ IF sigRegistered
       THEN /\ sigChan' = IF sigChan < SigChanCap THEN sigChan + 1 ELSE sigChan
            /\ UNCHANGED alive
       ELSE /\ alive' = FALSE
            /\ UNCHANGED sigChan
  /\ UNCHANGED <<rofi, mpc, helper, ctorErr, tradeManager, poeLogWatcher, notes,
                 sigRegistered, sigReceived, gpc, watchFailed, stopCalls, cbpc,
                 addTrade, delivered>>
  /\ UNCHANGED wmvars

\* The goroutine is scheduled and calls p.poeLogWatcher.Watch().
GoWatch ==
  /\ alive
  /\ gpc = "spawned"
  /\ gpc' = "watching"
  /\ UNCHANGED <<rofi, alive, mpc, helper, ctorErr, tradeManager, poeLogWatcher,
                 notes, sigSent, sigRegistered, sigChan, sigReceived,
                 watchFailed, stopCalls, cbpc, addTrade, delivered>>
  /\ UNCHANGED wmvars

\* The watcher's loop is between two lines (it calls the callback inline).
WatchLoopIdle == gpc = "watching" /\ cbpc = "idle"

\* Watch returns a non-nil error (the log source failed).
WatchError ==
  /\ alive
  /\ WatchLoopIdle
  /\ gpc' = "failed"
  /\ watchFailed' = TRUE
  /\ UNCHANGED <<rofi, alive, mpc, helper, ctorErr, tradeManager, poeLogWatcher,
                 notes, sigSent, sigRegistered, sigChan, sigReceived, stopCalls,
                 cbpc, addTrade, delivered>>
  /\ UNCHANGED wmvars

\* Watch leaves its loop after Stop and returns nil; the goroutine ends.
WatchExit ==
  /\ alive
  /\ WatchLoopIdle
  /\ stopCalls > 0
  /\ gpc' = "done"
  /\ UNCHANGED <<rofi, alive, mpc, helper, ctorErr, tradeManager, poeLogWatcher,
                 notes, sigSent, sigRegistered, sigChan, sigReceived,
                 watchFailed, stopCalls, cbpc, addTrade, delivered>>
  /\ UNCHANGED wmvars

\* The goroutine notifying from the logger's path as well as its own.
GoNotifyError_Twice ==
  /\ alive
  /\ gpc = "failed"
  /\ notes' = notes \o << [msg |-> "Log watcher error", sev |-> "Error"],
                          [msg |-> "Log watcher error", sev |-> "Error"] >>
  /\ gpc' = "done"
  /\ UNCHANGED <<rofi, alive, mpc, helper, ctorErr, tradeManager, poeLogWatcher,
                 sigSent, sigRegistered, sigChan, sigReceived, watchFailed,
                 stopCalls, cbpc, addTrade, delivered>>
  /\ UNCHANGED wmvars

\* The goroutine's error branch: log.Error, notifier.Show(..., notify.Error).
GoNotifyError ==
  /\ alive
  /\ gpc = "failed"
  /\ notes' = Append(notes, [msg |-> "Log watcher error", sev |-> "Error"])
  /\ gpc' = "done"
  /\ UNCHANGED <<rofi, alive, mpc, helper, ctorErr, tradeManager, poeLogWatcher,
                 sigSent, sigRegistered, sigChan, sigReceived, watchFailed,
                 stopCalls, cbpc, addTrade, delivered>>
  /\ UNCHANGED wmvars

\* The watcher calls handleTradeEntry(entry), which calls
\* p.tradeManager.AddTrade(entry) on the caller's goroutine. AddTrade either
\* runs to its return or blocks (a lock it cannot take, a full channel).
handleTradeEntryCall ==
  /\ alive
  /\ WatchLoopIdle
  /\ delivered < MaxEntries
  /\ delivered' = delivered + 1
  /\ cbpc' = "AddTrade"
  /\ addTrade' \in {"running", "blocked"}
  /\ UNCHANGED <<rofi, alive, mpc, helper, ctorErr, tradeManager, poeLogWatcher,
                 notes, sigSent, sigRegistered, sigChan, sigReceived, gpc,
                 watchFailed, stopCalls>>
  /\ UNCHANGED wmvars

\* AddTrade returns (nil, or an error that is only logged); the callback returns.
handleTradeEntryReturn ==
  /\ alive
  /\ cbpc = "AddTrade"
  /\ addTrade = "running"
  /\ cbpc' = "idle"
  /\ addTrade' = "idle"
  /\ UNCHANGED <<rofi, alive, mpc, helper, ctorErr, tradeManager, poeLogWatcher,
                 notes, sigSent, sigRegistered, sigChan, sigReceived, gpc,
                 watchFailed, stopCalls, delivered>>
  /\ UNCHANGED wmvars

NextApp ==
  \/ NewPOEHelper
  \/ RunNotifyStarted
  \/ RunGo
  \/ waitForShutdownNotify
  \/ waitForShutdownRecv
  \/ Stop
  \/ RunReturn
  \/ Signal
  \/ GoWatch
  \/ WatchError
  \/ WatchExit
  \/ GoNotifyError
  \/ handleTradeEntryCall
  \/ handleTradeEntryReturn


(* ============================ specifications =========================== *)

\* The two packages share no state: each specification runs one of them from
\* every initial environment and leaves the other untouched.
Init == InitWM /\ InitApp

SpecApp == Init /\ [][NextApp]_vars

NextWM ==
  \/ CloseWindow
  \/ NewX11
  \/ FindWindowCall
  \/ FindWindowSearch
  \/ FindWindowGetName
  \/ FindWindowNotFound
  \/ FocusWindowCall
  \/ FocusWindowActivate
  \/ FocusWindowSleep

SpecWM == Init /\ [][NextWM]_vars

(* ================================ claims =============================== *)

FindWindowReturned == wpc = "idle" /\ lastOp = "FindWindow"

FocusWindowReturned == wpc = "idle" /\ lastOp = "FocusWindow"

\* Windows closed during a call only shrink `present`: a window present now was
\* present throughout the call, and a class empty in atCall was empty throughout.

\* C1: FindWindow returns the first class of the list that has a matching
\* window, with the ID of a window of that class; a later class is returned
\* only if no window exists for any earlier class.
C1_FirstClassWithWindow ==
  FindWindowReturned =>
    \A k \in 1..Len(classNames) :
      ( /\ HasWindow(present, classNames[k])
        /\ \A j \in 1..(k - 1) : ~HasWindow(atCall, classNames[j]) )
      => /\ findRes.win.Class = classNames[k]
         /\ findRes.win.ID \in WindowIDs
         /\ classOf[findRes.win.ID] = classNames[k]

\* C2: when no class of the list has a matching window (the empty list
\* included), FindWindow returns the empty Window with a nil error; it never
\* returns a non-nil error.
C2_NotFoundIsNotAnError ==
  /\ findRes.err \in {"none", "nil"}
  /\ FindWindowReturned =>
       /\ findRes.err = "nil"
       /\ (\A k \in 1..Len(classNames) : ~HasWindow(atCall, classNames[k]))
            => findRes.win = NoWindow

\* FindWindow has returned "not found" for a non-empty list while other
\* windows existed.
C2_Witness ==
  /\ FindWindowReturned
  /\ Len(classNames) >= 1
  /\ atCall # {}
  /\ \A k \in 1..Len(classNames) : ~HasWindow(atCall, classNames[k])
  /\ findRes = [win |-> NoWindow, err |-> "nil"]

\* C3: FocusWindow with an empty window ID returns an error and runs no
\* xdotool command and no delay.
C3_EmptyIDRejected ==
  focusArg.ID = "" =>
    /\ focusLog = <<>>
    /\ wpc \notin {"activate", "sleep"}
    /\ focusRes \in {"none", "err"}
    /\ FocusWindowReturned => focusRes = "err"

\* FocusWindow has rejected the "not found" result of an earlier FindWindow.
C3_Witness ==
  /\ FocusWindowReturned
  /\ findRes = [win |-> NoWindow, err |-> "nil"]
  /\ focusArg = findRes.win
  /\ focusRes = "err"
  /\ focusLog = <<>>

\* C8: FocusWindow with a non-empty ID returns nil only after windowactivate
\* succeeded and the settle delay then elapsed; when windowactivate fails it
\* returns an error.
C8_FocusThenSettle ==
  /\ focusRes = "nil" =>
       focusLog = << [cmd |-> "windowactivate", arg |-> focusArg.ID, ok |-> TRUE],
                     [cmd |-> "sleep", arg |-> ToString(SettleDelayMs), ok |-> TRUE] >>
  /\ (FocusWindowReturned /\ focusArg.ID # "") =>
       /\ focusRes \in {"nil", "err"}
       /\ focusRes = "err" <=>
            focusLog = << [cmd |-> "windowactivate", arg |-> focusArg.ID,
                           ok |-> FALSE] >>
  /\ \A i \in 1..Len(focusLog) :
       (focusLog[i].cmd = "windowactivate" /\ ~focusLog[i].ok) => focusRes # "nil"

\* FocusWindow has focused an existing window and returned nil.
C8_Witness ==
  /\ FocusWindowReturned
  /\ focusArg.ID \in WindowIDs
  /\ focusRes = "nil"
  /\ Len(focusLog) = 2

\* C9: NewX11 returns (nil, error) when xdotool is absent and an X11 instance
\* with a nil error only when it is present; no instance is used that was
\* built without the check.
C9_ConstructionChecksBinary ==
  /\ wpc = "new" => wm.inst = "unbuilt"
  /\ wpc # "new" =>
       IF xdotool
         THEN wm = [inst |-> "X11", err |-> "nil"]
         ELSE wm.inst = "nil" /\ wm.err # "nil"
  /\ wpc \notin {"new", "failed"} => (wm.inst = "X11" /\ xdotool)

\* NewX11 has failed because xdotool is absent.
C9_Witness ==
  /\ ~xdotool
  /\ wpc = "failed"
  /\ wm.inst = "nil"
  /\ wm.err # "nil"

\* C4: with a required dependency missing NewPOEHelper shows the error through
\* the Notifier with error severity and returns (nil, error) before the trade
\* manager or the log watcher is created; no watcher goroutine ever starts.
C4_DependencyMissingIsFatal ==
  (~rofi /\ mpc # "new") =>
    /\ mpc = "failed"
    /\ helper = "nil"
    /\ ctorErr = "dep"
    /\ notes = << [msg |-> "rofi is not installed", sev |-> "Error"] >>
    /\ ~tradeManager
    /\ ~poeLogWatcher
    /\ gpc = "none"
    /\ stopCalls = 0

\* NewPOEHelper has failed on the missing dependency.
C4_Witness ==
  /\ ~rofi
  /\ mpc = "failed"
  /\ ctorErr = "dep"
  /\ Len(notes) = 1

\* C5: Run returns only after a termination signal was received, and then
\* only after LogWatcher.Stop was called exactly once; Run never stops the
\* watcher without a prior signal.
C5_CooperativeShutdown ==
  /\ stopCalls <= 1
  /\ stopCalls > 0 => (sigReceived /\ sigSent > 0)
  /\ mpc \in {"stop", "stopped", "returned"} => (sigReceived /\ sigSent > 0)
  /\ mpc \in {"stopped", "returned"} => stopCalls = 1

\* Run has returned after a signal and one Stop.
C5_Witness ==
  /\ mpc = "returned"
  /\ sigReceived
  /\ stopCalls = 1

\* C6: the callback does not stay inside a blocked AddTrade: whenever AddTrade
\* is blocked, handleTradeEntry has handed the entry off and returned to the
\* watcher's loop.
C6_CallbackNotHeldByAddTrade ==
  addTrade = "blocked" => cbpc = "idle"

WatcherErrorNotes ==
  Len(SelectSeq(notes, LAMBDA n : n.msg = "Log watcher error"))

\* C7: when Watch returns an error Run neither returns nor ends the process
\* because of it (it goes on waiting for a signal), and exactly one
\* notification of the failure is emitted.
C7_WatchErrorIsDegradedMode ==
  /\ WatcherErrorNotes <= 1
  /\ ~watchFailed => WatcherErrorNotes = 0
  /\ (watchFailed /\ gpc = "done") => WatcherErrorNotes = 1
  /\ (watchFailed /\ sigSent = 0) => (alive /\ mpc \in {"sigsetup", "sigwait"})
  /\ (watchFailed /\ ~sigReceived) => mpc \in {"sigsetup", "sigwait"}

\* Watch has failed, the notification is out and Run is still waiting.
C7_Witness ==
  /\ watchFailed
  /\ gpc = "done"
  /\ WatcherErrorNotes = 1
  /\ sigSent = 0
  /\ mpc = "sigwait"

\* C10: LogWatcher.Stop is never called before the goroutine has entered
\* Watch, and Run does not return while Watch is still to start or running.
C10_StopAfterWatchRunsAndJoined ==
  /\ stopCalls > 0 => gpc # "spawned"
  /\ mpc = "returned" => gpc \notin {"spawned", "watching"}

====
